---- MODULE Spec2Model ----
(***************************************************************************)
(* Model of school_bot.py: a Telegram bot that collects (name, age, grade) *)
(* in a three-step dialogue kept per user in the FSM storage, writes the   *)
(* finished record to the table `students`, lists the latest records and   *)
(* exports the table as CSV.                                               *)
(*                                                                         *)
(* A text is a sequence of one-character strings.  A message either has a  *)
(* text or has none (message.text is None for a photo, a sticker, ...).    *)
(* One action models one handler run from its filter to its last await;    *)
(* the updates of one user are handled one after the other.  SpecTasks has *)
(* the handlers as tasks of the event loop instead, cut at their awaits.   *)
(***************************************************************************)
EXTENDS Integers, Sequences, FiniteSets, TLC

\* ------------------------------------------------------------------ bounds

\* Rows the table may hold in a run of free dialogues.
MaxRecords == 1
\* Rows the table may hold in a run of scripted dialogues.
MaxDialogueRecords == 2
\* Rows the table may hold in a run with exports.
MaxExportRecords == 2
\* Seconds the wall clock may advance (export file names carry the second).
MaxClock == 1
\* Rows the table may hold when the repository functions are called directly.
MaxRepoRecords == 5
\* Largest LIMIT passed to list_students when it is called directly.
MaxLimit == 4
\* Rows the table may hold in a run with the list and export commands.
MaxCommandRecords == 1
\* Handlers of one user that may be in flight at once, and the rows the table
\* may hold, in a run where the handlers are tasks of the event loop.
MaxTasks == 2
MaxTaskRecords == 1
\* Longest text given to parse_age when it is called directly.
MaxAgeTextLen == 3

\* --------------------------------------------------------------- constants

\* on_students: list_students(limit=10)
StudentsLimit == 10
\* parse_age: 1 <= age <= 120
MinAge == 1
MaxAge == 120

\* -------------------------------------------------------------------- text

Whitespace == {" ", "\n", "\t"}

DigitChars == <<"0", "1", "2", "3", "4", "5", "6", "7", "8", "9">>

Digits == {DigitChars[i] : i \in 1..10}

DigitVal(c) == (CHOOSE i \in 1..10 : DigitChars[i] = c) - 1

RECURSIVE lstrip(_)
lstrip(s) ==
    IF s = <<>> THEN <<>>
    ELSE IF Head(s) \in Whitespace THEN lstrip(Tail(s)) ELSE s

RECURSIVE rstrip(_)
rstrip(s) ==
    IF s = <<>> THEN <<>>
    ELSE IF s[Len(s)] \in Whitespace THEN rstrip(SubSeq(s, 1, Len(s) - 1)) ELSE s

\* str.strip(): leading and trailing whitespace removed, the inside kept.
strip(s) == rstrip(lstrip(s))

\* str(int): the decimal digits of an integer.
RECURSIVE NatDigits(_)
NatDigits(n) ==
    IF n < 10 THEN <<DigitChars[n + 1]>>
    ELSE NatDigits(n \div 10) \o <<DigitChars[(n % 10) + 1]>>

IntStr(n) == IF n < 0 THEN <<"-">> \o NatDigits(-n) ELSE NatDigits(n)

\* The digits of an int() literal: digits, single underscores between them.
IsDigitBody(s) ==
    /\ s # <<>>
    /\ s[1] \in Digits
    /\ s[Len(s)] \in Digits
    /\ \A i \in 1..Len(s) : s[i] \in Digits \cup {"_"}
    /\ \A i \in 1..(Len(s) - 1) : ~(s[i] = "_" /\ s[i + 1] = "_")

RECURSIVE DigitBodyVal(_, _)
DigitBodyVal(s, acc) ==
    IF s = <<>> THEN acc
    ELSE IF Head(s) = "_" THEN DigitBodyVal(Tail(s), acc)
    ELSE DigitBodyVal(Tail(s), 10 * acc + DigitVal(Head(s)))

\* int(text): an optional sign, then the digits; anything else is ValueError.
IntParses(s) ==
    /\ s # <<>>
    /\ IF s[1] \in {"+", "-"} THEN IsDigitBody(Tail(s)) ELSE IsDigitBody(s)

IntValue(s) ==
    IF s[1] = "-" THEN 0 - DigitBodyVal(Tail(s), 0)
    ELSE IF s[1] = "+" THEN DigitBodyVal(Tail(s), 0)
    ELSE DigitBodyVal(s, 0)

\* The value parse_age returns for "no age" (Python's None).
NoAge == -1

\* parse_age with the upper end of the range forgotten.
parse_age_no_upper(text) ==
    LET t == strip(text) IN
    IF ~IntParses(t) THEN NoAge
    ELSE IF MinAge <= IntValue(t) THEN IntValue(t)
    ELSE NoAge

\* parse_age with the range beginning at 0.
parse_age_from_zero(text) ==
    LET t == strip(text) IN
    IF ~IntParses(t) THEN NoAge
    ELSE IF 0 <= IntValue(t) /\ IntValue(t) <= MaxAge THEN IntValue(t)
    ELSE NoAge

parse_age(text) ==
    LET t == strip(text) IN
    IF ~IntParses(t) THEN NoAge
    ELSE IF MinAge <= IntValue(t) /\ IntValue(t) <= MaxAge THEN IntValue(t)
    ELSE NoAge

\* -------------------------------------------------------------- repository

\* init_db that creates the table anew (DROP TABLE, CREATE TABLE).
init_db_recreates(rows) == {}

\* The table students: a set of rows [id, name, age, grade]; init_db leaves
\* an existing table as it is.
init_db(rows) == rows

MaxId(rows) ==
    IF rows = {} THEN 0
    ELSE CHOOSE n \in {r.id : r \in rows} : \A r \in rows : r.id <= n

\* An id column that hands out the largest id again.
NextRowId_reuse(rows) == IF rows = {} THEN 1 ELSE MaxId(rows)

\* INTEGER PRIMARY KEY AUTOINCREMENT: one more than the largest id so far
\* (no row is ever deleted, so the largest id is the last one assigned).
NextRowId(rows) == MaxId(rows) + 1

\* add_student with name and grade bound to each other's column.
add_student_swapped(rows, name, age, grade) ==
    LET id == NextRowId(rows) IN
    [rows |-> rows \cup {[id |-> id, name |-> strip(grade), age |-> age,
                          grade |-> strip(name)]},
     lastrowid |-> id]

\* add_student: the table after the INSERT and cur.lastrowid.
add_student(rows, name, age, grade) ==
    LET id == NextRowId(rows) IN
    [rows |-> rows \cup {[id |-> id, name |-> strip(name), age |-> age,
                          grade |-> strip(grade)]},
     lastrowid |-> id]

RECURSIVE OrderByIdAsc(_)
OrderByIdAsc(rows) ==
    IF rows = {} THEN <<>>
    ELSE LET r == CHOOSE x \in rows : \A y \in rows : x.id <= y.id
         IN <<r>> \o OrderByIdAsc(rows \ {r})

RECURSIVE OrderByIdDesc(_)
OrderByIdDesc(rows) ==
    IF rows = {} THEN <<>>
    ELSE LET r == CHOOSE x \in rows : \A y \in rows : x.id >= y.id
         IN <<r>> \o OrderByIdDesc(rows \ {r})

\* list_students with ORDER BY id ASC.
list_students_asc(rows, limit) ==
    LET all == OrderByIdAsc(rows) IN
    IF limit < 0 \/ limit >= Len(all) THEN all ELSE SubSeq(all, 1, limit)

\* list_students: ORDER BY id DESC LIMIT ? (a negative LIMIT is no limit).
list_students(rows, limit) ==
    LET all == OrderByIdDesc(rows) IN
    IF limit < 0 \/ limit >= Len(all) THEN all ELSE SubSeq(all, 1, limit)

\* ------------------------------------------------------------------ export

CsvHeader ==
    <<"i", "d", ",", "n", "a", "m", "e", ",", "a", "g", "e", ",",
      "g", "r", "a", "d", "e", "\n">>

\* f"{_id},{name},{age},{grade}\n"
CsvRow(r) ==
    IntStr(r.id) \o <<",">> \o r.name \o <<",">> \o IntStr(r.age) \o <<",">>
        \o r.grade \o <<"\n">>

RECURSIVE CsvRows(_)
CsvRows(rs) == IF rs = <<>> THEN <<>> ELSE CsvRow(Head(rs)) \o CsvRows(Tail(rs))

\* The export with ORDER BY id DESC.
CsvText_desc(rows) == CsvHeader \o CsvRows(OrderByIdDesc(rows))

\* What export_students_csv writes: the header, then the rows by id ascending.
CsvText(rows) == CsvHeader \o CsvRows(OrderByIdAsc(rows))

\* EXPORTS_DIR / students_<YYYYMMDD_HHMMSS>.csv: the name carries the second.
ExportPath(second) == [dir |-> "exports", stamp |-> second]

\* The export directory after a file is written (open(filename, "w")).
WriteFile(fs, path, text) ==
    [p \in DOMAIN fs \cup {path} |-> IF p = path THEN text ELSE fs[p]]

\* export_students_csv with the outcome of its two resources:
\*   "none": the file holds the whole table;  "io": open() raised, no file;
\*   "db":   the file was created empty and the SELECT raised.
export_students_csv(fs, rows, second, fault) ==
    LET path == ExportPath(second) IN
    IF fault = "io" THEN [files |-> fs, raised |-> TRUE, path |-> path]
    ELSE IF fault = "db"
    THEN [files |-> WriteFile(fs, path, <<>>), raised |-> TRUE, path |-> path]
    ELSE [files |-> WriteFile(fs, path, CsvText(rows)), raised |-> FALSE,
          path |-> path]

\* ---------------------------------------------------------------- messages

Users == {"u1", "u2"}

\* A message with a text, and a message without one (message.text is None).
Msg(t) == [has_text |-> TRUE, text |-> t]
NoTextMsg == [has_text |-> FALSE, text |-> <<>>]

\* message.text or ""
TextOrEmpty(m) == IF m.has_text THEN m.text ELSE <<>>

CmdStart == <<"/", "s", "t", "a", "r", "t">>
CmdHelp == <<"/", "h", "e", "l", "p">>
CmdCancel == <<"/", "c", "a", "n", "c", "e", "l">>
CmdStudents == <<"/", "s", "t", "u", "d", "e", "n", "t", "s">>
CmdExportCsv == <<"/", "e", "x", "p", "o", "r", "t", "_", "c", "s", "v">>

RECURSIVE UntilWhitespace(_)
UntilWhitespace(s) ==
    IF s = <<>> \/ Head(s) \in Whitespace THEN <<>>
    ELSE <<Head(s)>> \o UntilWhitespace(Tail(s))

\* The command of a text: its first whitespace-separated word.
FirstWord(s) == UntilWhitespace(lstrip(s))

\* The filter Command(...) / CommandStart(): the message starts with the command.
IsCommand(m, cmd) == m.has_text /\ FirstWord(m.text) = cmd

\* The texts users send: blank, a name with a line break inside, an age with
\* a trailing blank, the largest age, an age above the range.
TextBlank == <<" ">>
TextName == <<" ", "A", "\n", "B">>
TextSeven == <<"7", " ">>
TextOldest == <<"1", "2", "0">>
TextTooOld == <<"1", "2", "1">>

PlainTexts == {<<>>, TextBlank, TextName, TextSeven, TextOldest, TextTooOld}

CommandTexts == {CmdStart, CmdHelp, CmdCancel, CmdStudents, CmdExportCsv}

Messages == {Msg(t) : t \in PlainTexts \cup CommandTexts} \cup {NoTextMsg}

\* The messages of a run about the dialogue: texts, and the commands that
\* start and end a dialogue.
DialogueMessages ==
    {Msg(t) : t \in {<<>>, TextBlank, TextName, TextSeven, TextTooOld,
                     CmdStart, CmdHelp, CmdCancel}} \cup {NoTextMsg}

\* The messages of a run about the export: a dialogue's texts and commands.
ExportMessages ==
    {Msg(t) : t \in {TextName, TextSeven, CmdStart, CmdExportCsv}}

ExportUsers == {"u1"}

\* What can go wrong outside the program while a handler runs: nothing, the
\* database (sqlite3.Error), the export file (OSError).
DbFaults == {"none", "db"}
ExportFaults == {"none", "db", "io"}

\* ------------------------------------------------------------------- state

VARIABLES
    sessions,   \* FSM storage: user -> [state, data]
    db,         \* the rows of the table students
    files,      \* the export directory: path -> text of the file
    now,        \* the wall clock, in seconds
    out,        \* what handling the latest update sent, and to whom
    script,     \* per user, the texts a scripted client is going to send
    pc,         \* per user, how many events of the script were handled
    tasks,      \* per user, the handlers in flight: each waits at an await
    arrived,    \* per user, the command of the latest update received
    loop        \* the synchronous call the event loop is inside, if any

vars == <<sessions, db, files, now, out, script, pc, tasks, arrived, loop>>

\* StudentForm.name / .age / .grade, and no state.
StateNone == "none"
StateName == "name"
StateAge == "age"
StateGrade == "grade"

EmptyData == <<>>

\* A user without state and data is a user without a session.
Idle == [state |-> StateNone, data |-> EmptyData]

\* FSMContext.clear(), set_state(), update_data(), for the user of the update.
state_clear(ss, u) == [ss EXCEPT ![u] = Idle]

set_state(ss, u, st) == [ss EXCEPT ![u].state = st]

\* update_data on one dictionary shared by all users.
update_data_shared(ss, u, key, value) ==
    [v \in DOMAIN ss |->
        [ss[v] EXCEPT !.data =
            [k \in DOMAIN ss[v].data \cup {key} |->
                IF k = key THEN value ELSE ss[v].data[k]]]]

update_data(ss, u, key, value) ==
    [ss EXCEPT ![u].data =
        [k \in DOMAIN ss[u].data \cup {key} |->
            IF k = key THEN value ELSE ss[u].data[k]]]

\* message.answer(...) / message.answer_document(...): kind names the text sent.
Reply(u, kind, args) == [to |-> u, kind |-> kind, args |-> args]

\* ------------------------------------------------------------------ routing

\* Which command filter accepts each message (a table over Messages).
CommandOf ==
    [m \in Messages |->
        IF IsCommand(m, CmdStart) THEN "start"
        ELSE IF IsCommand(m, CmdHelp) THEN "help"
        ELSE IF IsCommand(m, CmdCancel) THEN "cancel"
        ELSE IF IsCommand(m, CmdStudents) THEN "students"
        ELSE IF IsCommand(m, CmdExportCsv) THEN "export_csv"
        ELSE "no command"]

\* The router tries the handlers in the order they are registered and runs
\* the first whose filter accepts the message.
Route(u, m) ==
    IF CommandOf[m] = "start" THEN "on_start"
    ELSE IF CommandOf[m] = "help" THEN "on_help"
    ELSE IF CommandOf[m] = "cancel" THEN "on_cancel"
    ELSE IF sessions[u].state = StateName THEN "on_name"
    ELSE IF sessions[u].state = StateAge THEN "on_age"
    ELSE IF sessions[u].state = StateGrade THEN "on_grade"
    ELSE IF CommandOf[m] = "students" THEN "on_students"
    ELSE IF CommandOf[m] = "export_csv" THEN "on_export_csv"
    ELSE "unhandled"

\* ----------------------------------------------------------------- handlers

\* on_start without state.clear().
on_start_keeps_data(u, m) ==
    /\ Route(u, m) = "on_start"
    /\ sessions' = set_state(sessions, u, StateName)
    /\ out' = Reply(u, "ask_name", <<>>)
    /\ UNCHANGED <<db, files, now>>

on_start(u, m) ==
    /\ Route(u, m) = "on_start"
    /\ sessions' = set_state(state_clear(sessions, u), u, StateName)
    /\ out' = Reply(u, "ask_name", <<>>)
    /\ UNCHANGED <<db, files, now>>

on_help(u, m) ==
    /\ Route(u, m) = "on_help"
    /\ out' = Reply(u, "help", <<>>)
    /\ UNCHANGED <<sessions, db, files, now>>

\* on_cancel with set_state(None) in place of clear().
on_cancel_keeps_data(u, m) ==
    /\ Route(u, m) = "on_cancel"
    /\ sessions' = set_state(sessions, u, StateNone)
    /\ out' = Reply(u, "cancelled", <<>>)
    /\ UNCHANGED <<db, files, now>>

on_cancel(u, m) ==
    /\ Route(u, m) = "on_cancel"
    /\ sessions' = state_clear(sessions, u)
    /\ out' = Reply(u, "cancelled", <<>>)
    /\ UNCHANGED <<db, files, now>>

\* on_name without the test for an empty name.
on_name_unchecked(u, m) ==
    /\ Route(u, m) = "on_name"
    /\ sessions' = set_state(update_data(sessions, u, "name",
                                         strip(TextOrEmpty(m))), u, StateAge)
    /\ out' = Reply(u, "ask_age", <<>>)
    /\ UNCHANGED <<db, files, now>>

on_name(u, m) ==
    /\ Route(u, m) = "on_name"
    /\ LET name == strip(TextOrEmpty(m)) IN
       IF name = <<>>
       THEN /\ out' = Reply(u, "name_empty", <<>>)
            /\ UNCHANGED sessions
       ELSE /\ sessions' = set_state(update_data(sessions, u, "name", name),
                                     u, StateAge)
            /\ out' = Reply(u, "ask_age", <<>>)
    /\ UNCHANGED <<db, files, now>>

\* on_age without update_data(age=age).
on_age_stores_nothing(u, m) ==
    /\ Route(u, m) = "on_age"
    /\ LET age == parse_age(TextOrEmpty(m)) IN
       IF age = NoAge
       THEN /\ out' = Reply(u, "age_invalid", <<>>)
            /\ UNCHANGED sessions
       ELSE /\ sessions' = set_state(sessions, u, StateGrade)
            /\ out' = Reply(u, "ask_grade", <<>>)
    /\ UNCHANGED <<db, files, now>>

on_age(u, m) ==
    /\ Route(u, m) = "on_age"
    /\ LET age == parse_age(TextOrEmpty(m)) IN
       IF age = NoAge
       THEN /\ out' = Reply(u, "age_invalid", <<>>)
            /\ UNCHANGED sessions
       ELSE /\ sessions' = set_state(update_data(sessions, u, "age", age),
                                     u, StateGrade)
            /\ out' = Reply(u, "ask_grade", <<>>)
    /\ UNCHANGED <<db, files, now>>

\* data.get("name", "").strip()
DataName(d) == IF "name" \in DOMAIN d THEN strip(d["name"]) ELSE <<>>

\* isinstance(data.get("age"), int)
DataHasAge(d) == "age" \in DOMAIN d

\* on_grade without the finally clause: a failed INSERT leaves the session.
on_grade_no_finally(u, m, fault) ==
    /\ Route(u, m) = "on_grade"
    /\ LET grade == strip(TextOrEmpty(m))
           data == sessions[u].data
           name == DataName(data)
       IN
       IF grade = <<>>
       THEN /\ out' = Reply(u, "grade_empty", <<>>)
            /\ UNCHANGED <<sessions, db>>
       ELSE IF name = <<>> \/ ~DataHasAge(data)
       THEN /\ out' = Reply(u, "data_invalid", <<>>)
            /\ sessions' = state_clear(sessions, u)
            /\ UNCHANGED db
       ELSE IF fault = "db"
       THEN /\ out' = Reply(u, "db_error", <<>>)
            /\ UNCHANGED <<sessions, db>>
       ELSE /\ LET res == add_student(db, name, data["age"], grade) IN
               /\ db' = res.rows
               /\ out' = Reply(u, "saved",
                               <<res.lastrowid, name, data["age"], grade>>)
            /\ sessions' = state_clear(sessions, u)
    /\ UNCHANGED <<files, now>>

on_grade(u, m, fault) ==
    /\ Route(u, m) = "on_grade"
    /\ LET grade == strip(TextOrEmpty(m))
           data == sessions[u].data
           name == DataName(data)
       IN
       IF grade = <<>>
       THEN /\ out' = Reply(u, "grade_empty", <<>>)
            /\ UNCHANGED <<sessions, db>>
       ELSE IF name = <<>> \/ ~DataHasAge(data)
       THEN /\ out' = Reply(u, "data_invalid", <<>>)
            /\ sessions' = state_clear(sessions, u)
            /\ UNCHANGED db
       ELSE IF fault = "db"
       THEN \* add_student raised sqlite3.Error: nothing was committed
            /\ out' = Reply(u, "db_error", <<>>)
            /\ sessions' = state_clear(sessions, u)
            /\ UNCHANGED db
       ELSE /\ LET res == add_student(db, name, data["age"], grade) IN
               /\ db' = res.rows
               /\ out' = Reply(u, "saved",
                               <<res.lastrowid, name, data["age"], grade>>)
            /\ sessions' = state_clear(sessions, u)
    /\ UNCHANGED <<files, now>>

on_students(u, m, fault) ==
    /\ Route(u, m) = "on_students"
    /\ IF fault = "db"
       THEN \* list_students raised; the handler does not catch it
            out' = Reply(u, "unhandled_exception", <<>>)
       ELSE LET rows == list_students(db, StudentsLimit) IN
            IF rows = <<>>
            THEN out' = Reply(u, "list_empty", <<>>)
            ELSE out' = Reply(u, "list", rows)
    /\ UNCHANGED <<sessions, db, files, now>>

\* on_export_csv that sends the file whether or not the export raised.
on_export_csv_sends_anyway(u, m, fault) ==
    /\ Route(u, m) = "on_export_csv"
    /\ LET res == export_students_csv(files, db, now, fault) IN
       /\ files' = res.files
       /\ out' = Reply(u, "document", <<res.path>>)
    /\ UNCHANGED <<sessions, db, now>>

on_export_csv(u, m, fault) ==
    /\ Route(u, m) = "on_export_csv"
    /\ LET res == export_students_csv(files, db, now, fault) IN
       /\ files' = res.files
       /\ IF res.raised
          THEN out' = Reply(u, "export_failed", <<>>)
          ELSE out' = Reply(u, "document", <<res.path>>)
    /\ UNCHANGED <<sessions, db, now>>

\* A handler without a state filter that takes any other text as a name.
unhandled_takes_name(u, m) ==
    /\ Route(u, m) = "unhandled"
    /\ sessions' = set_state(update_data(sessions, u, "name",
                                         strip(TextOrEmpty(m))), u, StateAge)
    /\ out' = Reply(u, "ask_age", <<>>)
    /\ UNCHANGED <<db, files, now>>

\* No filter accepts the message: the update is dropped.
unhandled(u, m) ==
    /\ Route(u, m) = "unhandled"
    /\ out' = Reply(u, "nothing", <<>>)
    /\ UNCHANGED <<sessions, db, files, now>>

\* One update of user u, handled from the filters to the end of the handler.
Deliver(u, m) ==
    \/ on_start(u, m)
    \/ on_help(u, m)
    \/ on_cancel(u, m)
    \/ on_name(u, m)
    \/ on_age(u, m)
    \/ \E fault \in DbFaults : on_grade(u, m, fault)
    \/ \E fault \in DbFaults : on_students(u, m, fault)
    \/ \E fault \in ExportFaults : on_export_csv(u, m, fault)
    \/ unhandled(u, m)

\* A second of wall-clock time passes.
Tick ==
    /\ now < MaxClock
    /\ now' = now + 1
    /\ UNCHANGED <<sessions, db, files, out>>

\* main(): the process starts again; the table and the export files stay,
\* the MemoryStorage starts empty.
main ==
    /\ sessions' = [u \in Users |-> Idle]
    /\ db' = init_db(db)
    /\ out' = Reply("log", "started", <<>>)
    /\ UNCHANGED <<files, now>>

\* ---------------------------------------------------------- specifications

NoScript == [name |-> <<>>, age |-> <<>>, grade |-> <<>>]

\* The event loop is inside no synchronous call.
LoopFree == [user |-> "nobody"]

\* No handler is in flight and no update was received.
NoTasks == [u \in Users |-> <<>>]
NoneArrived == [u \in Users |-> "nothing"]

Init ==
    /\ sessions = [u \in Users |-> Idle]
    /\ db = init_db({})
    /\ files = <<>>
    /\ now = 0
    /\ out = Reply("log", "started", <<>>)
    /\ script = [u \in Users |-> NoScript]
    /\ pc = [u \in Users |-> 0]
    /\ tasks = NoTasks
    /\ arrived = NoneArrived
    /\ loop = LoopFree

\* A step of the bot in a run without scripted clients; the table is capped.
Free(A) ==
    /\ A
    /\ Cardinality(db') <= MaxRecords
    /\ UNCHANGED <<script, pc, tasks, arrived, loop>>

FreeExport(A) ==
    /\ A
    /\ Cardinality(db') <= MaxExportRecords
    /\ UNCHANGED <<script, pc, tasks, arrived, loop>>

\* Two users, any dialogue messages in any order, restarts of the process.
Next ==
    \/ \E u \in Users, m \in DialogueMessages : Free(on_start(u, m))
    \/ \E u \in Users, m \in DialogueMessages : Free(on_help(u, m))
    \/ \E u \in Users, m \in DialogueMessages : Free(on_cancel(u, m))
    \/ \E u \in Users, m \in DialogueMessages : Free(on_name(u, m))
    \/ \E u \in Users, m \in DialogueMessages : Free(on_age(u, m))
    \/ \E u \in Users, m \in DialogueMessages, fault \in DbFaults :
          Free(on_grade(u, m, fault))
    \/ \E u \in Users, m \in DialogueMessages : Free(unhandled(u, m))
    \/ Free(main)

Spec == Init /\ [][Next]_vars

\* One user: dialogues, and exports of the table at any moment.
NextExport ==
    \/ \E u \in ExportUsers, m \in ExportMessages : FreeExport(on_start(u, m))
    \/ \E u \in ExportUsers, m \in ExportMessages : FreeExport(on_name(u, m))
    \/ \E u \in ExportUsers, m \in ExportMessages : FreeExport(on_age(u, m))
    \/ \E u \in ExportUsers, m \in ExportMessages, fault \in DbFaults :
          FreeExport(on_grade(u, m, fault))
    \/ \E u \in ExportUsers, m \in ExportMessages, fault \in ExportFaults :
          FreeExport(on_export_csv(u, m, fault))
    \/ \E u \in ExportUsers, m \in ExportMessages : FreeExport(unhandled(u, m))

SpecExport == Init /\ [][NextExport]_vars

\* The same, with the wall clock moving between the updates.
NextClock ==
    \/ NextExport
    \/ FreeExport(Tick)

SpecClock == Init /\ [][NextClock]_vars

\* Scripted clients: every user sends /start, a name, an age and a grade, one
\* after the other, and may begin again when done; the users' events
\* interleave in any order.
NameTexts == {TextName, TextSeven}
AgeTexts == {TextSeven, TextOldest}
GradeTexts == {TextName, TextTooOld}

Scripts == [name : NameTexts, age : AgeTexts, grade : GradeTexts]

InitDialogue ==
    /\ sessions = [u \in Users |-> Idle]
    /\ db = init_db({})
    /\ files = <<>>
    /\ now = 0
    /\ out = Reply("log", "started", <<>>)
    /\ script \in [Users -> Scripts]
    /\ pc = [u \in Users |-> 0]
    /\ tasks = NoTasks
    /\ arrived = NoneArrived
    /\ loop = LoopFree

\* The client of u sends m as event number k of its script.
Send(u, k, m) ==
    /\ pc[u] = k - 1
    /\ Deliver(u, m)
    /\ Cardinality(db') <= MaxDialogueRecords
    /\ pc' = [pc EXCEPT ![u] = k]
    /\ UNCHANGED <<script, tasks, arrived, loop>>

SendStart(u) == Send(u, 1, Msg(CmdStart))
SendName(u) == Send(u, 2, Msg(script[u].name))
SendAge(u) == Send(u, 3, Msg(script[u].age))
SendGrade(u) == Send(u, 4, Msg(script[u].grade))

\* The dialogue is over; the client is ready for another one.
Again(u) ==
    /\ pc[u] = 4
    /\ pc' = [pc EXCEPT ![u] = 0]
    /\ UNCHANGED <<sessions, db, files, now, out, script, tasks, arrived, loop>>

NextDialogue ==
    \/ \E u \in Users : SendStart(u)
    \/ \E u \in Users : SendName(u)
    \/ \E u \in Users : SendAge(u)
    \/ \E u \in Users : SendGrade(u)
    \/ \E u \in Users : Again(u)

SpecDialogue == InitDialogue /\ [][NextDialogue]_vars

\* The repository functions called directly.
RepoNames == {<<"A">>, <<" ", "B">>}
RepoAges == {7}
RepoGrades == {<<"5">>}
Limits == (1..MaxLimit) \cup {StudentsLimit}

RepoAdd(name, age, grade) ==
    /\ Cardinality(db) < MaxRepoRecords
    /\ LET res == add_student(db, name, age, grade) IN
       /\ db' = res.rows
       /\ out' = Reply("caller", "lastrowid", <<res.lastrowid>>)
    /\ UNCHANGED <<sessions, files, now, script, pc, tasks, arrived, loop>>

RepoList(limit) ==
    /\ out' = Reply("caller", "rows", <<limit, list_students(db, limit)>>)
    /\ UNCHANGED <<sessions, db, files, now, script, pc, tasks, arrived, loop>>

NextRepo ==
    \/ \E name \in RepoNames, age \in RepoAges, grade \in RepoGrades :
          RepoAdd(name, age, grade)
    \/ \E limit \in Limits : RepoList(limit)

SpecRepo == Init /\ [][NextRepo]_vars

\* One user: dialogues, the commands /students and /export_csv at any moment
\* of a dialogue, restarts of the process.
CommandMessages ==
    {Msg(t) : t \in {TextSeven, CmdStart, CmdStudents, CmdExportCsv}}

CommandUsers == {"u1"}

FreeCommands(A) ==
    /\ A
    /\ Cardinality(db') <= MaxCommandRecords
    /\ UNCHANGED <<script, pc, tasks, arrived, loop>>

NextCommands ==
    \/ \E u \in CommandUsers, m \in CommandMessages : FreeCommands(on_start(u, m))
    \/ \E u \in CommandUsers, m \in CommandMessages : FreeCommands(on_name(u, m))
    \/ \E u \in CommandUsers, m \in CommandMessages : FreeCommands(on_age(u, m))
    \/ \E u \in CommandUsers, m \in CommandMessages, fault \in DbFaults :
          FreeCommands(on_grade(u, m, fault))
    \/ \E u \in CommandUsers, m \in CommandMessages, fault \in DbFaults :
          FreeCommands(on_students(u, m, fault))
    \/ \E u \in CommandUsers, m \in CommandMessages, fault \in ExportFaults :
          FreeCommands(on_export_csv(u, m, fault))
    \/ \E u \in CommandUsers, m \in CommandMessages : FreeCommands(unhandled(u, m))
    \/ FreeCommands(main)

SpecCommands == Init /\ [][NextCommands]_vars

\* ------------------------------------------------------- handlers as tasks
\*
\* The dispatcher makes a task of every update, and the event loop runs a task
\* until it waits: a handler runs from its filter to its first
\* message.answer without a break, and goes on when the answer is sent.  The
\* calls of FSMContext on the MemoryStorage and the calls of sqlite3 do not
\* wait: they are part of the piece of the handler they stand in.  A task in
\* flight is the handler's name and the statement it goes on with.

Task(handler, next) == [handler |-> handler, next |-> next]

TaskMessages == {Msg(t) : t \in {TextSeven, CmdStart, CmdCancel}}

\* The update m of user u arrives and its task starts.
Begin(u, m, handler, next) ==
    /\ tasks' = [tasks EXCEPT ![u] = Append(@, Task(handler, next))]
    /\ arrived' = [arrived EXCEPT ![u] = CommandOf[m]]

\* The loop can start a task: it is inside no synchronous call.
CanBegin(u) == loop = LoopFree /\ Len(tasks[u]) < MaxTasks

\* on_start up to "await message.answer": state.clear() is done.
begin_on_start(u, m) ==
    /\ CanBegin(u)
    /\ Route(u, m) = "on_start"
    /\ sessions' = state_clear(sessions, u)
    /\ out' = Reply(u, "ask_name", <<>>)
    /\ Begin(u, m, "on_start", "set_state(name)")
    /\ UNCHANGED <<db, files, now, script, pc, loop>>

begin_on_cancel(u, m) ==
    /\ CanBegin(u)
    /\ Route(u, m) = "on_cancel"
    /\ sessions' = state_clear(sessions, u)
    /\ out' = Reply(u, "cancelled", <<>>)
    /\ Begin(u, m, "on_cancel", "return")
    /\ UNCHANGED <<db, files, now, script, pc, loop>>

begin_on_name(u, m) ==
    /\ CanBegin(u)
    /\ Route(u, m) = "on_name"
    /\ LET name == strip(TextOrEmpty(m)) IN
       IF name = <<>>
       THEN /\ out' = Reply(u, "name_empty", <<>>)
            /\ Begin(u, m, "on_name", "return")
            /\ UNCHANGED sessions
       ELSE /\ sessions' = update_data(sessions, u, "name", name)
            /\ out' = Reply(u, "ask_age", <<>>)
            /\ Begin(u, m, "on_name", "set_state(age)")
    /\ UNCHANGED <<db, files, now, script, pc, loop>>

begin_on_age(u, m) ==
    /\ CanBegin(u)
    /\ Route(u, m) = "on_age"
    /\ LET age == parse_age(TextOrEmpty(m)) IN
       IF age = NoAge
       THEN /\ out' = Reply(u, "age_invalid", <<>>)
            /\ Begin(u, m, "on_age", "return")
            /\ UNCHANGED sessions
       ELSE /\ sessions' = update_data(sessions, u, "age", age)
            /\ out' = Reply(u, "ask_grade", <<>>)
            /\ Begin(u, m, "on_age", "set_state(grade)")
    /\ UNCHANGED <<db, files, now, script, pc, loop>>

\* on_grade up to its first message.answer, or up to the call of add_student:
\* the call is synchronous, the loop is inside it until it returns.
begin_on_grade(u, m) ==
    /\ CanBegin(u)
    /\ Route(u, m) = "on_grade"
    /\ LET grade == strip(TextOrEmpty(m))
           data == sessions[u].data
           name == DataName(data)
       IN
       IF grade = <<>>
       THEN /\ out' = Reply(u, "grade_empty", <<>>)
            /\ Begin(u, m, "on_grade", "return")
            /\ UNCHANGED loop
       ELSE IF name = <<>> \/ ~DataHasAge(data)
       THEN /\ out' = Reply(u, "data_invalid", <<>>)
            /\ Begin(u, m, "on_grade", "clear")
            /\ UNCHANGED loop
       ELSE /\ Cardinality(db) < MaxTaskRecords
            /\ loop' = [user |-> u, name |-> name, age |-> data["age"],
                        grade |-> grade]
            /\ Begin(u, m, "on_grade", "add_student")
            /\ UNCHANGED out
    /\ UNCHANGED <<sessions, db, files, now, script, pc>>

\* The position in tasks[u] of the task that is inside add_student.
InAddStudent(u) == CHOOSE i \in 1..Len(tasks[u]) : tasks[u][i].next = "add_student"

\* add_student returns or raises; on_grade goes on to its message.answer, and
\* has the finally clause before it.
add_student_returns(fault) ==
    /\ loop # LoopFree
    /\ IF fault = "db"
       THEN /\ out' = Reply(loop.user, "db_error", <<>>)
            /\ UNCHANGED db
       ELSE LET res == add_student(db, loop.name, loop.age, loop.grade) IN
            /\ db' = res.rows
            /\ out' = Reply(loop.user, "saved",
                            <<res.lastrowid, loop.name, loop.age, loop.grade>>)
    /\ tasks' = [tasks EXCEPT ![loop.user][InAddStudent(loop.user)].next = "clear"]
    /\ loop' = LoopFree
    /\ UNCHANGED <<sessions, files, now, script, pc, arrived>>

\* No filter accepts the message: the task ends at once.
begin_unhandled(u, m) ==
    /\ CanBegin(u)
    /\ Route(u, m) = "unhandled"
    /\ out' = Reply(u, "nothing", <<>>)
    /\ arrived' = [arrived EXCEPT ![u] = CommandOf[m]]
    /\ UNCHANGED <<sessions, db, files, now, script, pc, tasks, loop>>

RemoveAt(seq, i) == SubSeq(seq, 1, i - 1) \o SubSeq(seq, i + 1, Len(seq))

\* The answer of task i of user u is sent: the handler runs to its end.
resume(u, i) ==
    /\ loop = LoopFree
    /\ i \in 1..Len(tasks[u])
    /\ LET next == tasks[u][i].next IN
       /\ next # "add_student"
       /\ sessions' =
             IF next = "set_state(name)" THEN set_state(sessions, u, StateName)
             ELSE IF next = "set_state(age)" THEN set_state(sessions, u, StateAge)
             ELSE IF next = "set_state(grade)" THEN set_state(sessions, u, StateGrade)
             ELSE IF next = "clear" THEN state_clear(sessions, u)
             ELSE sessions
    /\ tasks' = [tasks EXCEPT ![u] = RemoveAt(@, i)]
    /\ UNCHANGED <<db, files, now, out, script, pc, arrived, loop>>

\* A step of the loop for user u: a task of u starts or goes on.
TaskStep(u) ==
    \/ \E m \in TaskMessages : begin_on_start(u, m)
    \/ \E m \in TaskMessages : begin_on_cancel(u, m)
    \/ \E m \in TaskMessages : begin_on_name(u, m)
    \/ \E m \in TaskMessages : begin_on_age(u, m)
    \/ \E m \in TaskMessages : begin_on_grade(u, m)
    \/ \E m \in TaskMessages : begin_unhandled(u, m)
    \/ \E i \in 1..MaxTasks : resume(u, i)

NextTasks ==
    \/ \E u \in Users, m \in TaskMessages : begin_on_start(u, m)
    \/ \E u \in Users, m \in TaskMessages : begin_on_cancel(u, m)
    \/ \E u \in Users, m \in TaskMessages : begin_on_name(u, m)
    \/ \E u \in Users, m \in TaskMessages : begin_on_age(u, m)
    \/ \E u \in Users, m \in TaskMessages : begin_on_grade(u, m)
    \/ \E u \in Users, m \in TaskMessages : begin_unhandled(u, m)
    \/ \E fault \in DbFaults : add_student_returns(fault)
    \/ \E u \in Users, i \in 1..MaxTasks : resume(u, i)

SpecTasks == Init /\ [][NextTasks]_vars

\* parse_age called directly: on every short text over a few characters, and
\* on the decimal form of the integers around the range.
AgeChars == {"0", "1", "2", "5", "9", "-", "+", ".", "_", " ", "a", "b", "c"}
AgeNumbers == (0 - 5)..(MaxAge + 10)

AgeInputs ==
    UNION {[1..n -> AgeChars] : n \in 0..MaxAgeTextLen}
        \cup {IntStr(n) : n \in AgeNumbers}

InitAge ==
    /\ sessions = [u \in Users |-> Idle]
    /\ db = init_db({})
    /\ files = <<>>
    /\ now = 0
    /\ out \in {Reply("caller", "text", <<t>>) : t \in AgeInputs}
    /\ script = [u \in Users |-> NoScript]
    /\ pc = [u \in Users |-> 0]
    /\ tasks = NoTasks
    /\ arrived = NoneArrived
    /\ loop = LoopFree

CallParseAge ==
    /\ out.kind = "text"
    /\ out' = Reply("caller", "parse_age",
                    <<out.args[1], parse_age(out.args[1])>>)
    /\ UNCHANGED <<sessions, db, files, now, script, pc, tasks, arrived, loop>>

NextAge == CallParseAge

SpecAge == InitAge /\ [][NextAge]_vars

\* ------------------------------------------------------------------ claims

\* What the claims call a valid age text: a base-10 integer from 1 to 120.
IsAgeText(t) ==
    /\ IntParses(strip(t))
    /\ 1 <= IntValue(strip(t))
    /\ IntValue(strip(t)) <= 120

\* No whitespace at either end, and not empty.
IsStripped(t) ==
    /\ t # <<>>
    /\ t[1] \notin Whitespace
    /\ t[Len(t)] \notin Whitespace

\* The session a /start leaves: waiting for the name, nothing collected.
FreshSession == [state |-> StateName, data |-> EmptyData]

\* C1: a scripted dialogue /start, name, age, grade whose last step does not
\* end in a database error adds exactly one record, holding the stripped name
\* and grade and the parsed age of that user's script; the reply "saved"
\* carries the new record's id, and the user is left without a session.
C1_DialogueStoresRecord ==
    [][\A u \in Users :
          (pc[u] = 3 /\ pc'[u] = 4 /\ out'.kind # "db_error") =>
             /\ db \subseteq db'
             /\ Cardinality(db' \ db) = 1
             /\ \A r \in db' \ db :
                   /\ r.name = strip(script[u].name)
                   /\ r.age = IntValue(strip(script[u].age))
                   /\ r.grade = strip(script[u].grade)
                   /\ out' = Reply(u, "saved",
                                   <<r.id, r.name, r.age, r.grade>>)
             /\ sessions'[u] = Idle]_vars

\* A dialogue is complete, the record of its script is in the table under
\* the id of the reply, and stripping changed the name.
C1_Witness ==
    /\ out.kind = "saved"
    /\ pc[out.to] = 4
    /\ sessions[out.to] = Idle
    /\ script[out.to].name = TextName
    /\ \E r \in db :
          /\ r.id = out.args[1]
          /\ r.name = <<"A", "\n", "B">>
          /\ r.age = IntValue(strip(script[out.to].age))

\* The step handles message m of user u; its reply goes to u.
Handles(u, m) == out'.to = u /\ Deliver(u, m)

\* The field a state waits for does not accept the message.
FailsValidation(st, m) ==
    \/ st \in {StateName, StateGrade} /\ strip(TextOrEmpty(m)) = <<>>
    \/ st = StateAge /\ ~IsAgeText(TextOrEmpty(m))

RePrompt(st) ==
    IF st = StateName THEN "name_empty"
    ELSE IF st = StateAge THEN "age_invalid"
    ELSE "grade_empty"

\* C2: a text that fails the validation of the awaited field leaves every
\* session and the table as they were and sends only the re-prompt.
C2_InvalidTextKeepsSession ==
    [][\A u \in Users, m \in DialogueMessages :
          (/\ out'.to = u
           /\ CommandOf[m] = "no command"
           /\ sessions[u].state # StateNone
           /\ FailsValidation(sessions[u].state, m)
           /\ Handles(u, m)) =>
             /\ sessions' = sessions
             /\ db' = db
             /\ out' = Reply(u, RePrompt(sessions[u].state), <<>>)]_vars

\* A user was re-prompted for the age and still waits for it, name kept.
C2_Witness ==
    /\ out.kind = "age_invalid"
    /\ sessions[out.to].state = StateAge
    /\ DOMAIN sessions[out.to].data = {"name"}

\* C3: /cancel in any state leaves the user without a session and adds no
\* record; a /start after it leaves the user waiting for the name with
\* nothing collected.
C3_CancelRemovesSession ==
    [][\A u \in Users, m \in DialogueMessages :
          /\ (CommandOf[m] = "cancel" /\ Handles(u, m)) =>
                /\ sessions'[u] = Idle
                /\ db' = db
                /\ out' = Reply(u, "cancelled", <<>>)
          /\ (CommandOf[m] = "start" /\ sessions[u] = Idle /\ Handles(u, m)) =>
                /\ sessions'[u] = FreshSession
                /\ db' = db]_vars

\* A cancel was answered while the other user is in the middle of a dialogue
\* and a record exists.
C3_Witness ==
    /\ out.kind = "cancelled"
    /\ sessions[out.to] = Idle
    /\ \E v \in Users : sessions[v].state = StateGrade
    /\ db # {}

\* C4: /start in a running dialogue replaces the session: the user waits for
\* the name, nothing collected survives, and no record is created.
C4_StartReplacesSession ==
    [][\A u \in Users, m \in DialogueMessages :
          (/\ CommandOf[m] = "start"
           /\ sessions[u].state \in {StateName, StateAge, StateGrade}
           /\ Handles(u, m)) =>
             /\ sessions'[u] = FreshSession
             /\ db' = db]_vars

\* A user was asked for the name and has a fresh session.
C4_Witness ==
    /\ out.kind = "ask_name"
    /\ sessions[out.to] = FreshSession
    /\ \E v \in Users : "age" \in DOMAIN sessions[v].data

\* The value the handlers take from message m for field k.
FieldOf(k, m) ==
    IF k = "name" THEN strip(TextOrEmpty(m))
    ELSE IntValue(strip(TextOrEmpty(m)))

\* C5: an update of user u changes no other user's session; what it adds to
\* u's collected fields comes from its own message; a record it creates
\* holds u's collected name and age and the grade of its own message.
\* (Every step either has these three properties or is no update of u.)
C5_SessionIsolation ==
    [][\A u \in Users, m \in DialogueMessages :
          \/ /\ \A v \in Users \ {u} : sessions'[v] = sessions[v]
             /\ \A k \in DOMAIN sessions'[u].data :
                   \/ /\ k \in DOMAIN sessions[u].data
                      /\ sessions'[u].data[k] = sessions[u].data[k]
                   \/ /\ k \notin DOMAIN sessions[u].data
                      /\ k = "age" => IntParses(strip(TextOrEmpty(m)))
                      /\ sessions'[u].data[k] = FieldOf(k, m)
             /\ db' # db =>
                   /\ DOMAIN sessions[u].data = {"name", "age"}
                   /\ \E r \in db' :
                         /\ db' = db \cup {r}
                         /\ r.name = sessions[u].data["name"]
                         /\ r.age = sessions[u].data["age"]
                         /\ r.grade = strip(TextOrEmpty(m))
          \/ ~Handles(u, m)]_vars

\* Both users are in the middle of a dialogue with different names.
C5_Witness ==
    /\ sessions["u1"].state = StateGrade
    /\ sessions["u2"].state = StateAge
    /\ sessions["u1"].data["name"] # sessions["u2"].data["name"]
    /\ db # {}

\* C6: every record has a non-empty name and grade without whitespace at the
\* ends and an age from 1 to 120.
C6_RecordsWellFormed ==
    \A r \in db :
       /\ IsStripped(r.name)
       /\ IsStripped(r.grade)
       /\ r.age \in 1..120

\* A record made from texts that had whitespace at the ends.
C6_Witness ==
    \E r \in db : r.name = <<"A", "\n", "B">> /\ r.age = 7 /\ r.grade = <<"7">>

\* The final step of u with message m reaches the INSERT.
ReachesInsert(u, m) ==
    /\ sessions[u].state = StateGrade
    /\ CommandOf[m] = "no command"
    /\ strip(TextOrEmpty(m)) # <<>>
    /\ DOMAIN sessions[u].data = {"name", "age"}

\* C7: when the INSERT of the final step fails, no record is added, the user
\* gets the storage-failure text and loses the session; a user without a
\* session creates no record and gets no session by anything but /start, and
\* a record is only ever created by a user who waits for the grade.
C7_FailedInsertEndsDialogue ==
    [][\A u \in Users, m \in DialogueMessages :
          /\ (ReachesInsert(u, m) /\ on_grade(u, m, "db")) =>
                /\ db' = db
                /\ out' = Reply(u, "db_error", <<>>)
                /\ sessions'[u] = Idle
          /\ (sessions[u] = Idle /\ CommandOf[m] # "start" /\ Handles(u, m)) =>
                /\ sessions'[u] = Idle
                /\ db' = db
          /\ (db' # db /\ Handles(u, m)) => sessions[u].state = StateGrade]_vars

\* A storage failure was reported and the user has no session.
C7_Witness ==
    /\ out.kind = "db_error"
    /\ sessions[out.to] = Idle

\* C8: ids are unique and start at 1; an insert gives an id above every id
\* in the table, and the reply carries the id of the record just written.
C8_IdsUniqueIncreasing ==
    /\ [](/\ \A r1, r2 \in db : r1.id = r2.id => r1 = r2
          /\ db # {} => \E r \in db : r.id = 1
          /\ \A r \in db : r.id >= 1)
    /\ [][db' # db =>
             \E r \in db' :
                /\ r \notin db
                /\ db' = db \cup {r}
                /\ \A q \in db : q.id < r.id
                /\ out'.kind = "saved"
                /\ out'.args[1] = r.id]_vars

\* The second record was just written, under id 2.
C8_Witness ==
    /\ Cardinality(db) = 2
    /\ out.kind = "saved"
    /\ out.args[1] = 2
    /\ \E r \in db : r.id = 2 /\ r.name = out.args[2]

Min(a, b) == IF a <= b THEN a ELSE b

\* C9: list_students(limit), limit positive, returns the min(limit, N) rows
\* with the greatest ids, by id descending; limit 3 over ids 1..5 gives the
\* rows 5, 4, 3.
C9_ListRecent ==
    out.kind = "rows" =>
       LET limit == out.args[1]
           rows == out.args[2]
       IN
       /\ Len(rows) = Min(limit, Cardinality(db))
       /\ \A i \in 1..Len(rows) : rows[i] \in db
       /\ \A i, j \in 1..Len(rows) : i < j => rows[i].id > rows[j].id
       /\ \A r \in db :
             (\A i \in 1..Len(rows) : rows[i] # r) =>
                \A i \in 1..Len(rows) : r.id < rows[i].id
       /\ (limit = 3 /\ {r.id : r \in db} = 1..5) =>
             [i \in 1..Len(rows) |-> rows[i].id] = <<5, 4, 3>>

\* list_students(3) was called on a table with the ids 1..5.
C9_Witness ==
    /\ out.kind = "rows"
    /\ out.args[1] = 3
    /\ {r.id : r \in db} = 1..5
    /\ [i \in 1..Len(out.args[2]) |-> out.args[2][i].id] = <<5, 4, 3>>

\* The lines of a text: the pieces that end in a line break, and what
\* follows the last line break if anything does.
RECURSIVE LinesOf(_, _)
LinesOf(text, line) ==
    IF text = <<>> THEN (IF line = <<>> THEN <<>> ELSE <<line>>)
    ELSE IF Head(text) = "\n" THEN <<line>> \o LinesOf(Tail(text), <<>>)
    ELSE LinesOf(Tail(text), Append(line, Head(text)))

HeaderLine ==
    <<"i", "d", ",", "n", "a", "m", "e", ",", "a", "g", "e", ",",
      "g", "r", "a", "d", "e">>

\* The record with exactly i - 1 records of smaller id.
RecordAt(i) ==
    CHOOSE r \in db : Cardinality({q \in db : q.id < r.id}) = i - 1

RecordLine(r) ==
    IntStr(r.id) \o <<",">> \o r.name \o <<",">> \o IntStr(r.age) \o <<",">>
        \o r.grade

\* The exported file is the header line and one line per record, by id.
ExportIsTable ==
    LET ls == LinesOf(files[out.args[1]], <<>>) IN
    /\ Len(ls) = Cardinality(db) + 1
    /\ ls[1] = HeaderLine
    /\ \A i \in 1..Cardinality(db) : ls[i + 1] = RecordLine(RecordAt(i))

NoLineBreak(t) == \A i \in 1..Len(t) : t[i] # "\n"

\* C10 as stated: an export of N records written through the dialogue has
\* exactly N + 1 lines, the header and then one line per record by id.
C10_ExportLines_AsStated ==
    out.kind = "document" => ExportIsTable

\* C10: an export of N records of which no name and no grade holds a line
\* break has exactly N + 1 lines, the header and then one line per record,
\* by id ascending.
C10_ExportLines ==
    (/\ out.kind = "document"
     /\ \A r \in db : NoLineBreak(r.name) /\ NoLineBreak(r.grade)) =>
       ExportIsTable

\* Two records without line breaks were exported.
C10_Witness ==
    /\ out.kind = "document"
    /\ Cardinality(db) = 2
    /\ \A r \in db : NoLineBreak(r.name) /\ NoLineBreak(r.grade)
    /\ Len(LinesOf(files[out.args[1]], <<>>)) = 3

\* C11: the table only grows, and only by the INSERT of the final step: every
\* record stays as it is in every later state, a new record takes an id no
\* record has, and list_students, export_students_csv and init_db leave the
\* table as it is.
C11_TableAppendOnly ==
    [][/\ db \subseteq db'
       /\ \A r \in db' \ db : \A q \in db : q.id # r.id
       /\ db' # db => out'.kind = "saved"
       /\ out'.kind \in {"list", "list_empty", "unhandled_exception",
                         "document", "export_failed", "started"} =>
             db' = db]_vars

\* The table was listed after it was exported and the process restarted, and
\* it holds a record.
C11_Witness ==
    /\ out.kind = "list"
    /\ out.args = OrderByIdDesc(db)
    /\ db # {}
    /\ \E p \in DOMAIN files : Len(files[p]) > Len(CsvHeader)

\* The texts the program sends to say that storage or export failed.
FailureTexts == {"db_error", "export_failed"}

\* C12: every storage error raised while an update is handled, by the INSERT
\* of the final step or by the SELECT of /students, ends in a failure text
\* sent to the user of the update and changes no other user's session.
C12_StorageErrorReported ==
    [][\A u \in CommandUsers, m \in CommandMessages :
          /\ (/\ out'.to = u
              /\ sessions[u].state = StateGrade
              /\ strip(TextOrEmpty(m)) # <<>>
              /\ DOMAIN sessions[u].data = {"name", "age"}
              /\ on_grade(u, m, "db")) =>
                /\ out'.kind \in FailureTexts
                /\ \A v \in Users \ {u} : sessions'[v] = sessions[v]
          /\ (out'.to = u /\ on_students(u, m, "db")) =>
                /\ out'.kind \in FailureTexts
                /\ \A v \in Users \ {u} : sessions'[v] = sessions[v]]_vars

\* The SELECT of /students raised and the user was sent nothing.
C12_Witness ==
    /\ out.kind = "unhandled_exception"
    /\ out.to \in CommandUsers

\* C13: a failed export sends the failure text and nothing else: no document,
\* no path; and every document sent is the whole table as exported.
C13_FailedExportSendsNoFile ==
    /\ [](out.kind = "document" =>
             /\ out.args[1] \in DOMAIN files
             /\ files[out.args[1]] = CsvText(db))
    /\ [][\A u \in CommandUsers, m \in CommandMessages :
             \A fault \in ExportFaults \ {"none"} :
                (out'.to = u /\ on_export_csv(u, m, fault)) =>
                   out' = Reply(u, "export_failed", <<>>)]_vars

\* An export failed after its file was created: the empty file is in the
\* export directory and the user got the failure text.
C13_Witness ==
    /\ out.kind = "export_failed"
    /\ \E p \in DOMAIN files : files[p] = <<>>

\* C14: /students and /export_csv in any state of the dialogue leave the
\* user's session as it is and are answered by the listing or the export (or
\* by what a storage fault makes of them).
C14_CommandsBypassDialogue ==
    [][\A u \in CommandUsers, m \in CommandMessages :
          (/\ out'.to = u
           /\ CommandOf[m] \in {"students", "export_csv"}
           /\ Handles(u, m)) =>
             /\ sessions'[u] = sessions[u]
             /\ out'.kind \in {"list", "list_empty", "document",
                               "unhandled_exception", "export_failed"}]_vars

\* The text /students was stored as the user's name.
C14_Witness ==
    \E u \in CommandUsers :
       /\ sessions[u].state = StateAge
       /\ sessions[u].data["name"] = CmdStudents
       /\ out = Reply(u, "ask_age", <<>>)

\* C15: the updates of one user are handled one after the other: no user has
\* two handlers in flight, and when /cancel was a user's latest update and
\* all handlers of that user are done, the user has no session.
C15_OneHandlerPerUser ==
    \A u \in Users :
       /\ Len(tasks[u]) <= 1
       /\ (tasks[u] = <<>> /\ arrived[u] = "cancel") => sessions[u] = Idle

\* /cancel was the latest update of a user, every handler of that user is
\* done, and the user has a session: the end of on_start made it anew.
C15_Witness ==
    \E u \in Users :
       /\ tasks[u] = <<>>
       /\ arrived[u] = "cancel"
       /\ sessions[u].state = StateName

\* C16: two exports never return the same path: the path an export returns
\* is not the path of a file an earlier export wrote.
C16_ExportsNeverCollide ==
    [][\A u \in ExportUsers, m \in ExportMessages :
          on_export_csv(u, m, "none") =>
             ~(/\ out'.args[1] \in DOMAIN files
               /\ files[out'.args[1]] # <<>>)]_vars

IsDigit(c) == c \in Digits

RECURSIVE DropZeros(_)
DropZeros(s) ==
    IF Len(s) > 1 /\ Head(s) = "0" THEN DropZeros(Tail(s)) ELSE s

\* The texts the specification lists as no age.
NoAgeExamples ==
    {<<"0">>, <<"1", "2", "1">>, <<"-", "5">>, <<>>, <<"5", ".", "5">>,
     <<"a", "b", "c">>}

\* C17: parse_age gives n for the decimal text of an integer n from 1 to 120
\* (whitespace around it ignored) and no age for the decimal text of any
\* other integer; whatever it gives is from 1 to 120 and is the number the
\* digits of the text spell, and it gives nothing for a text with a minus
\* sign, a point or a letter; "0", "121", "-5", "", "5.5", "abc" are no age.
C17_ParseAge ==
    out.kind = "parse_age" =>
       LET t == out.args[1]
           r == out.args[2]
       IN
       /\ r = NoAge \/ r \in 1..120
       /\ \A n \in AgeNumbers :
             strip(t) = IntStr(n) => r = (IF n \in 1..120 THEN n ELSE NoAge)
       /\ r # NoAge =>
             /\ \A i \in 1..Len(t) : t[i] \in Digits \cup Whitespace \cup {"+", "_"}
             /\ DropZeros(SelectSeq(t, IsDigit)) = IntStr(r)
       /\ t \in NoAgeExamples => r = NoAge

\* parse_age was called on "120" and gave 120.
C17_Witness ==
    /\ out.kind = "parse_age"
    /\ out.args = <<TextOldest, 120>>

\* C18: while a storage call of one user is going on, the loop can take a
\* step for another user: start the handler of an update or go on with a
\* handler whose answer was sent.
C18_StorageCallsSuspend ==
    loop # LoopFree =>
       \E v \in Users \ {loop.user} : ENABLED TaskStep(v)

\* on_grade of one user is inside add_student while a handler of the other
\* user waits to go on.
C18_Witness ==
    /\ loop # LoopFree
    /\ \E v \in Users \ {loop.user} : tasks[v] # <<>>

\* C19: with every update handled to its end before the next: a user who
\* waits for the name has nothing collected, one who waits for the age has
\* exactly a non-empty stripped name, one who waits for the grade has such a
\* name and an age from 1 to 120; the final step never answers that the data
\* are invalid.
C19_SessionShape ==
    /\ \A u \in Users :
          LET st == sessions[u].state
              data == sessions[u].data
          IN
          /\ st = StateName => data = EmptyData
          /\ st = StateAge =>
                /\ DOMAIN data = {"name"}
                /\ IsStripped(data["name"])
          /\ st = StateGrade =>
                /\ DOMAIN data = {"name", "age"}
                /\ IsStripped(data["name"])
                /\ data["age"] \in 1..120
    /\ out.kind # "data_invalid"

\* One user waits for the grade with name and age collected while the other
\* has just begun.
C19_Witness ==
    \E u, v \in Users :
       /\ sessions[u].state = StateGrade
       /\ sessions[u].data["name"] = <<"7">>
       /\ sessions[u].data["age"] = 7
       /\ sessions[v] = FreshSession

\* C20: a text that is no command, from a user without a session, changes
\* no session and no record and is not answered; a record is added only by
\* a step that handles such a text for a user who waits for the grade.
C20_IdleTextIsNoOp ==
    [][\A u \in Users, m \in DialogueMessages :
          /\ (/\ out'.to = u
              /\ CommandOf[m] = "no command"
              /\ sessions[u] = Idle
              /\ Handles(u, m)) =>
                /\ sessions' = sessions
                /\ db' = db
                /\ out' = Reply(u, "nothing", <<>>)
          /\ (out'.to = u /\ db' # db /\ Handles(u, m)) =>
                /\ sessions[u].state = StateGrade
                /\ CommandOf[m] = "no command"]_vars

\* A text of a user without a session was dropped while the other user is
\* in a dialogue and a record exists.
C20_Witness ==
    /\ out.kind = "nothing"
    /\ sessions[out.to] = Idle
    /\ \E v \in Users : sessions[v].state = StateAge
    /\ db # {}

====
